---- MODULE Spec2Model ----
(***************************************************************************)
(* Model of the lofi stream server (server index: StreamOutput, the        *)
(* streams registry, the WebSocket session handlers and the SIGINT         *)
(* handler).  Every event-loop callback of the server is one atomic        *)
(* action.  Two specifications share the variables:                        *)
(*   Spec    - the server as it runs: connections, frames, child events;   *)
(*   SupSpec - one StreamOutput object per slot, driven directly through   *)
(*             start() / write() / stop() and its child's events.          *)
(***************************************************************************)
EXTENDS Integers, Sequences, FiniteSets, TLC

\* ---------------------------------------------------------------- bounds
MaxChunks == 2        \* chunks written to children in one run
MaxErrors == 1        \* error replies sent in one run
MaxProcs == 3         \* children spawned in one run of SupSpec
MaxStarts == 2        \* calls of StreamClient.start() in one run

\* The connections the server accepts in one run; in SupSpec, the
\* StreamOutput objects.  Two are what sharing a platform takes.
Sessions == {1, 2}
Null == 0

\* Strings that the code splits, trims or concatenates are sequences of
\* tokens; a token is a run of characters free of '\n', '=', '#' and ' ',
\* or one of these four characters.
NL == "\n"
EQ == "="
HASH == "#"
SP == " "

\* --------------------------------------------------- the platform files
\* ~/api-secrets/lofi-stream/platforms/<platform>.env, as found on disk:
\* "youtube" resolves to a key and a URL, "nokey" has a file that sets no
\* usable STREAM_KEY, "ghost" has no file.
Platforms == {"youtube", "nokey", "ghost"}

EnvFiles ==
  [ youtube |-> << HASH, SP, "yt", NL,
                   "STREAM_URL", SP, EQ, SP, "rtmp://yt", EQ, "app", NL,
                   NL,
                   "STREAM_KEY", EQ, "old", NL,
                   "STREAM_KEY", EQ, "ykey", SP >>,
    nokey   |-> << HASH, "STREAM_KEY", EQ, "hidden", NL,
                   "STREAM_KEY", NL,
                   "STREAM_KEY", EQ, SP, NL,
                   "OTHER", EQ, "x" >> ]

existsSync(platform) == platform \in DOMAIN EnvFiles

\* String.prototype.split(sep) on a token sequence.
RECURSIVE Split(_, _)
Split(str, sep) ==
  IF \A i \in 1..Len(str) : str[i] # sep
  THEN << str >>
  ELSE LET i == CHOOSE k \in 1..Len(str) :
                  str[k] = sep /\ \A j \in 1..(k - 1) : str[j] # sep
       IN  << SubSeq(str, 1, i - 1) >> \o Split(SubSeq(str, i + 1, Len(str)), sep)

\* Array.prototype.join(sep).
RECURSIVE Join(_, _)
Join(parts, sep) ==
  IF Len(parts) = 0 THEN << >>
  ELSE IF Len(parts) = 1 THEN parts[1]
  ELSE parts[1] \o << sep >> \o Join(Tail(parts), sep)

\* String.prototype.trim().
RECURSIVE Trim(_)
Trim(str) ==
  IF Len(str) = 0 THEN str
  ELSE IF str[1] = SP THEN Trim(Tail(str))
  ELSE IF str[Len(str)] = SP THEN Trim(SubSeq(str, 1, Len(str) - 1))
  ELSE str

\* The body of the forEach callback: one line folded into the config object.
ParseLine(cfg, line) ==
  IF Len(line) > 0 /\ line[1] # HASH
  THEN LET parts == Split(line, EQ)
           key == parts[1]
           valueParts == Tail(parts)
       IN  IF Len(key) > 0 /\ Len(valueParts) > 0
           THEN LET k == Trim(key)
                    v == Trim(Join(valueParts, EQ))
                IN  [ x \in (DOMAIN cfg) \cup {k} |-> IF x = k THEN v ELSE cfg[x] ]
           ELSE cfg
  ELSE cfg

RECURSIVE ParseLines(_, _)
ParseLines(cfg, lines) ==
  IF Len(lines) = 0 THEN cfg
  ELSE ParseLines(ParseLine(cfg, lines[1]), Tail(lines))

EmptyConfig == [ x \in {} |-> << >> ]

\* loadStreamConfig: found = FALSE stands for the null it returns.
loadStreamConfig(platform) ==
  IF ~existsSync(platform)
  THEN [ found |-> FALSE, config |-> EmptyConfig ]
  ELSE [ found |-> TRUE,
         config |-> ParseLines(EmptyConfig, Split(EnvFiles[platform], NL)) ]

\* config.NAME: the empty string stands for undefined (both are falsy).
Field(cfg, name) == IF << name >> \in DOMAIN cfg THEN cfg[<< name >>] ELSE << >>

NoConfigFile(sc) == ~sc.found

\* !streamConfig || !streamConfig.STREAM_KEY
NoStreamKey(sc) == ~sc.found \/ Field(sc.config, "STREAM_KEY") = << >>

DefaultUrl == << "rtmp://a.rtmp.youtube.com/live2" >>

\* streamConfig.STREAM_URL || 'rtmp://a.rtmp.youtube.com/live2'
StreamUrlOf(sc) ==
  IF Field(sc.config, "STREAM_URL") = << >> THEN DefaultUrl
  ELSE Field(sc.config, "STREAM_URL")

\* ------------------------------------------------------ frames on the wire
Chunks == {"c1", "c2"}

Undefined == "<undefined>"

\* Text frames a client sends, by what JSON.parse makes of them: json =
\* "bad" does not parse, "obj" parses to an object whose platform property
\* is Undefined (absent) or a platform name.  The StreamClient default,
\* "youtube", is requested by leaving the property out.
TextData ==
  { [ json |-> "bad", platform |-> Undefined ],
    [ json |-> "obj", platform |-> Undefined ] }
  \cup { [ json |-> "obj", platform |-> p ] : p \in Platforms \ {"youtube"} }

Frames ==
  { [ isBinary |-> FALSE, data |-> d ] : d \in TextData }
  \cup { [ isBinary |-> TRUE, data |-> c ] : c \in Chunks }

ParseBadAsDefault(d) ==
  [ threw |-> FALSE,
    platform |-> IF d.json = "bad" \/ d.platform = Undefined \/ d.platform = ""
                 THEN "youtube" ELSE d.platform ]

\* JSON.parse(data.toString()) followed by config.platform || 'youtube';
\* threw = TRUE when JSON.parse throws into the catch block.
ParseConfig(d) ==
  IF d.json = "bad"
  THEN [ threw |-> TRUE, platform |-> "" ]
  ELSE [ threw |-> FALSE,
         platform |-> IF d.platform = Undefined \/ d.platform = ""
                      THEN "youtube" ELSE d.platform ]

\* Reply frames (the JSON.stringify arguments).
ErrorReply(p) == [ type |-> "error", platform |-> p ]
StatusReply(p) == [ type |-> "streaming", platform |-> p ]

\* ------------------------------------------------------------------ state
VARIABLES
  ws,            \* ws[s]: "idle" (not yet connected), "open", "closed"
  streamOutput,  \* streamOutput[s]: the connection's StreamOutput, or Null
  platform,      \* platform[s]: the connection's platform variable
  so,            \* so[u]: the fields of StreamOutput object u
  proc,          \* proc[u][i]: the i-th child process spawned by object u
  streams,       \* the streams Map: platform -> StreamOutput
  sent,          \* sent[s]: frames sent to the client of s
  exited,        \* process.exit(0) has been called
  ffmpegFound,   \* the host has an ffmpeg binary that spawn() can execute
  lastOp,        \* the callback or call that ran last
  client,        \* the fields of the browser's StreamClient object
  socks,         \* socks[k]: the k-th WebSocket the StreamClient created
  calls          \* calls[c]: the c-th call of StreamClient.start()

clientVars == << client, socks, calls >>

vars == << ws, streamOutput, platform, so, proc, streams, sent, exited,
           ffmpegFound, lastOp, client, socks, calls >>

\* new StreamClient(canvas, audio): codec is whether the browser's
\* MediaRecorder supports one of the mime types of _startRecording.
NewStreamClient(codec) ==
  [ ws |-> Null, recorder |-> "none", isStreaming |-> FALSE, codec |-> codec ]

\* No page is open.
NoClient ==
  /\ client = NewStreamClient(TRUE)
  /\ socks = << >>
  /\ calls = << >>

\* StreamOutput constructor.
NewStreamOutput(p, streamKey, streamUrl) ==
  [ platform |-> p, streamKey |-> streamKey, streamUrl |-> streamUrl,
    ffmpeg |-> Null, isStreaming |-> FALSE ]

\* Slot of an object that has not been constructed.
NoObject == NewStreamOutput("", << >>, << >>)

\* spawn('ffmpeg', [..., rtmpUrl], stdio pipes): the new ChildProcess.
\* state: "running", "spawnfail" (spawn failed, 'error' not yet emitted),
\* "dead" (process gone but the runtime has not handled its exit yet: the
\* stdin pipe has lost its reader and is still writable),
\* "exited" (exit handled, stdin destroyed, 'close' not yet emitted),
\* "closed" ('close' emitted).  A spawn that fails (found = FALSE: ENOENT)
\* still returns a ChildProcess and reports the failure by an 'error' event.
\* epipe: a write on stdin has failed and the stream's 'error' is pending.
spawn(rtmpUrl, found) ==
  [ rtmpUrl |-> rtmpUrl,
    state |-> IF found THEN "running" ELSE "spawnfail",
    writable |-> TRUE, ended |-> FALSE, sigterm |-> FALSE, stdin |-> << >>,
    epipe |-> FALSE ]

\* The operators below take and return a record st that has at least the
\* fields so and proc; found is what spawn() meets on the host.

StartWhileRunning(st, u, found) ==
  LET rtmpUrl == st.so[u].streamUrl \o << "/" >> \o st.so[u].streamKey
  IN  [ st EXCEPT !.so[u].ffmpeg = Len(st.proc[u]) + 1,
                  !.so[u].isStreaming = TRUE,
                  !.proc[u] = Append(@, spawn(rtmpUrl, found)) ]

\* StreamOutput.start()
Start(st, u, found) ==
  IF st.so[u].ffmpeg # Null
  THEN st
  ELSE LET rtmpUrl == st.so[u].streamUrl \o << "/" >> \o st.so[u].streamKey
       IN  [ st EXCEPT !.so[u].ffmpeg = Len(st.proc[u]) + 1,
                       !.so[u].isStreaming = TRUE,
                       !.proc[u] = Append(@, spawn(rtmpUrl, found)) ]

WriteNewestFirst(st, u, chunk) ==
  LET c == st.so[u].ffmpeg
  IN  IF c # Null /\ st.proc[u][c].writable
      THEN [ st EXCEPT !.proc[u][c].stdin = << chunk >> \o @ ]
      ELSE st

\* StreamOutput.write(chunk): stdin.write(chunk) on a pipe whose reader is
\* gone delivers nothing and fails with EPIPE.
Write(st, u, chunk) ==
  LET c == st.so[u].ffmpeg
  IN  IF c # Null /\ st.proc[u][c].writable
      THEN IF st.proc[u][c].state = "dead"
           THEN [ st EXCEPT !.proc[u][c].epipe = TRUE ]
           ELSE [ st EXCEPT !.proc[u][c].stdin = Append(@, chunk) ]
      ELSE st

StopSignalsLastChild(st, u) ==
  LET c == IF st.so[u].ffmpeg # Null THEN st.so[u].ffmpeg ELSE Len(st.proc[u])
  IN  IF c # Null
      THEN [ st EXCEPT !.proc[u][c].ended = TRUE, !.proc[u][c].writable = FALSE,
                       !.proc[u][c].sigterm = TRUE,
                       !.so[u].ffmpeg = Null, !.so[u].isStreaming = FALSE ]
      ELSE st

\* StreamOutput.stop()
Stop(st, u) ==
  LET c == st.so[u].ffmpeg
  IN  IF c # Null
      THEN [ st EXCEPT !.proc[u][c].ended = TRUE, !.proc[u][c].writable = FALSE,
                       !.proc[u][c].sigterm = TRUE,
                       !.so[u].ffmpeg = Null, !.so[u].isStreaming = FALSE ]
      ELSE st

\* The 'close' and 'error' listeners that start() registered on a child
\* of object u: both run the same two assignments.
OnChildEvent(st, u) ==
  [ st EXCEPT !.so[u].ffmpeg = Null, !.so[u].isStreaming = FALSE ]

\* for (const stream of streams.values()) stream.stop()
RECURSIVE StopAll(_, _)
StopAll(st, us) ==
  IF us = {} THEN st
  ELSE LET u == CHOOSE x \in us : TRUE
       IN  StopAll(Stop(st, u), us \ {u})

\* streams.set(p, u)
MapSet(m, p, u) == [ q \in (DOMAIN m) \cup {p} |-> IF q = p THEN u ELSE m[q] ]

\* streams.delete(p)
MapDelete(m, p) == [ q \in (DOMAIN m) \ {p} |-> m[q] ]

\* streams.values()
MapValues(m) == { m[q] : q \in DOMAIN m }

EmptyMap == [ q \in {} |-> Null ]

\* Everything a handler of the server can read or write.
World ==
  [ streamOutput |-> streamOutput, platform |-> platform, so |-> so,
    proc |-> proc, streams |-> streams, sent |-> sent ]

\* The try block of the message handler: the frame taken as configuration.
Configure(w, s, data, found) ==
  LET cfg == ParseConfig(data)
  IN  IF cfg.threw THEN w
      ELSE LET p == cfg.platform
               sc == loadStreamConfig(p)
               w1 == [ w EXCEPT !.platform[s] = p ]
           IN  IF NoStreamKey(sc)
               THEN [ w1 EXCEPT !.sent[s] = Append(@, ErrorReply(p)) ]
               ELSE LET w2 == [ w1 EXCEPT
                                  !.so[s] = NewStreamOutput(p,
                                              Field(sc.config, "STREAM_KEY"),
                                              StreamUrlOf(sc)),
                                  !.streamOutput[s] = s ]
                        w3 == Start(w2, s, found)
                    IN  [ w3 EXCEPT !.streams = MapSet(@, p, s),
                                    !.sent[s] = Append(@, StatusReply(p)) ]

MessageReconfigures(w, s, frame, found) ==
  IF ~frame.isBinary
  THEN Configure(w, s, frame.data, found)
  ELSE IF w.streamOutput[s] # Null
  THEN Write(w, w.streamOutput[s], frame.data)
  ELSE w

MessageAnswersBinary(w, s, frame, found) ==
  IF w.streamOutput[s] = Null /\ ~frame.isBinary
  THEN Configure(w, s, frame.data, found)
  ELSE IF frame.isBinary /\ w.streamOutput[s] # Null
  THEN Write(w, w.streamOutput[s], frame.data)
  ELSE IF frame.isBinary
  THEN [ w EXCEPT !.sent[s] = Append(@, ErrorReply(w.platform[s])) ]
  ELSE w

\* ws.on('message', (data, isBinary) => ...) of connection s.  The
\* StreamOutput a connection creates is object s (it creates at most one).
OnMessage(w, s, frame, found) ==
  IF w.streamOutput[s] = Null /\ ~frame.isBinary
  THEN Configure(w, s, frame.data, found)
  ELSE IF frame.isBinary /\ w.streamOutput[s] # Null
  THEN Write(w, w.streamOutput[s], frame.data)
  ELSE w

CloseKeepsEntry(w, s) ==
  IF w.streamOutput[s] # Null
  THEN Stop(w, w.streamOutput[s])
  ELSE w

\* ws.on('close', ...) of connection s.
OnClose(w, s) ==
  IF w.streamOutput[s] # Null
  THEN [ Stop(w, w.streamOutput[s]) EXCEPT !.streams = MapDelete(@, w.platform[s]) ]
  ELSE w

\* process.on('SIGINT', ...) up to process.exit(0).
OnSigint(w) == StopAll(w, MapValues(w.streams))

\* The body of the /health response.
Health(w) ==
  [ status |-> "ok",
    streams |-> DOMAIN w.streams,
    activeStreams |->
      Cardinality({ q \in DOMAIN w.streams : w.so[w.streams[q]].isStreaming }) ]

NoArg == "-"

Op(name, id, arg) == [ op |-> name, id |-> id, child |-> Null, arg |-> arg ]

\* A step of child i of object u.
ChildOp(name, u, i) == [ op |-> name, id |-> u, child |-> i, arg |-> NoArg ]

\* The handler's result becomes the next state.
Becomes(w) ==
  /\ streamOutput' = w.streamOutput
  /\ platform' = w.platform
  /\ so' = w.so
  /\ proc' = w.proc
  /\ streams' = w.streams
  /\ sent' = w.sent

RECURSIVE SumOver(_, _)
SumOver(f, dom) ==
  IF dom = {} THEN 0
  ELSE LET x == CHOOSE y \in dom : TRUE
       IN  f[x] + SumOver(f, dom \ {x})

\* The children spawned so far, as << object, index >>.
Children(procs) == UNION { { << u, i >> : i \in 1..Len(procs[u]) } : u \in Sessions }

ChunksWritten(procs) ==
  SumOver([ k \in Children(procs) |-> Len(procs[k[1]][k[2]].stdin) ], Children(procs))

Spawned(procs) == Cardinality(Children(procs))

ErrorsSent(out) ==
  SumOver([ s \in Sessions |->
              Cardinality({ i \in 1..Len(out[s]) : out[s][i].type = "error" }) ],
          Sessions)

WithinBounds(w) ==
  /\ ErrorsSent(w.sent) <= MaxErrors
  /\ ChunksWritten(w.proc) <= MaxChunks

\* ---------------------------------------------------------------- server
Init ==
  /\ ws = [ s \in Sessions |-> "idle" ]
  /\ streamOutput = [ s \in Sessions |-> Null ]
  /\ platform = [ s \in Sessions |-> "youtube" ]
  /\ so = [ u \in Sessions |-> NoObject ]
  /\ proc = [ u \in Sessions |-> << >> ]
  /\ streams = EmptyMap
  /\ sent = [ s \in Sessions |-> << >> ]
  /\ exited = FALSE
  /\ ffmpegFound \in BOOLEAN
  /\ lastOp = Op("init", Null, NoArg)
  /\ NoClient

\* wss.on('connection', ...): the closure variables of the new connection.
Connect(s) ==
  /\ ~exited
  /\ ws[s] = "idle"
  /\ ws' = [ ws EXCEPT ![s] = "open" ]
  /\ streamOutput' = [ streamOutput EXCEPT ![s] = Null ]
  /\ platform' = [ platform EXCEPT ![s] = "youtube" ]
  /\ lastOp' = Op("connection", s, NoArg)
  /\ UNCHANGED clientVars
  /\ UNCHANGED << so, proc, streams, sent, exited, ffmpegFound >>

Message(s) ==
  /\ ~exited
  /\ ws[s] = "open"
  /\ \E frame \in Frames :
       LET w == OnMessage(World, s, frame, ffmpegFound)
       IN  /\ WithinBounds(w)
           /\ Becomes(w)
           /\ lastOp' = Op("message", s, frame)
           /\ UNCHANGED clientVars
  /\ UNCHANGED << ws, exited, ffmpegFound >>

Close(s) ==
  /\ ~exited
  /\ ws[s] = "open"
  /\ ws' = [ ws EXCEPT ![s] = "closed" ]
  /\ Becomes(OnClose(World, s))
  /\ lastOp' = Op("close", s, NoArg)
  /\ UNCHANGED clientVars
  /\ UNCHANGED << exited, ffmpegFound >>

\* ws.on('error', ...): the error is logged, nothing else.
WsError(s) ==
  /\ ~exited
  /\ ws[s] = "open"
  /\ lastOp' = Op("wserror", s, NoArg)
  /\ UNCHANGED clientVars
  /\ UNCHANGED << ws, streamOutput, platform, so, proc, streams, sent, exited,
                  ffmpegFound >>

Sigint ==
  /\ ~exited
  /\ Becomes(OnSigint(World))
  /\ exited' = TRUE
  /\ lastOp' = Op("SIGINT", Null, NoArg)
  /\ UNCHANGED clientVars
  /\ UNCHANGED << ws, ffmpegFound >>

\* ---------------------------------------------------------- child events
\* The ffmpeg process terminates (on its own, or after SIGTERM or end of
\* input); the runtime destroys its stdin pipe.
ChildExit(u, i) ==
  /\ ~exited
  /\ proc[u][i].state \in {"running", "dead"}
  /\ proc' = [ proc EXCEPT ![u][i].state = "exited", ![u][i].writable = FALSE ]
  /\ lastOp' = ChildOp("exit", u, i)
  /\ UNCHANGED clientVars
  /\ UNCHANGED << ws, streamOutput, platform, so, streams, sent, exited, ffmpegFound >>

\* this.ffmpeg.on('close', ...)
ChildClose(u, i) ==
  /\ ~exited
  /\ proc[u][i].state = "exited"
  /\ LET st == OnChildEvent([ so |-> so, proc |-> proc ], u)
     IN  /\ so' = st.so
         /\ proc' = [ st.proc EXCEPT ![u][i].state = "closed" ]
  /\ lastOp' = ChildOp("close-event", u, i)
  /\ UNCHANGED clientVars
  /\ UNCHANGED << ws, streamOutput, platform, streams, sent, exited, ffmpegFound >>

\* this.ffmpeg.on('error', ...): how a failed spawn is reported.
ChildError(u, i) ==
  /\ ~exited
  /\ proc[u][i].state = "spawnfail"
  /\ LET st == OnChildEvent([ so |-> so, proc |-> proc ], u)
     IN  /\ so' = st.so
         /\ proc' = [ st.proc EXCEPT ![u][i].state = "exited", ![u][i].writable = FALSE ]
  /\ lastOp' = ChildOp("error-event", u, i)
  /\ UNCHANGED clientVars
  /\ UNCHANGED << ws, streamOutput, platform, streams, sent, exited, ffmpegFound >>

Next ==
  \/ \E s \in Sessions : Connect(s)
  \/ \E s \in Sessions : Message(s)
  \/ \E s \in Sessions : Close(s)
  \/ \E s \in Sessions : WsError(s)
  \/ Sigint
  \/ \E u \in Sessions : \E i \in 1..Len(proc[u]) : ChildExit(u, i)
  \/ \E u \in Sessions : \E i \in 1..Len(proc[u]) : ChildClose(u, i)
  \/ \E u \in Sessions : \E i \in 1..Len(proc[u]) : ChildError(u, i)

Spec == Init /\ [][Next]_vars

\* ------------------------------------------- StreamOutput driven directly
\* The objects SupSpec drives.
SupObjects == {1}

SupInit ==
  /\ ws = [ s \in Sessions |-> "idle" ]
  /\ streamOutput = [ s \in Sessions |-> Null ]
  /\ platform = [ s \in Sessions |-> "youtube" ]
  /\ so = [ u \in Sessions |->
              NewStreamOutput("youtube",
                              Field(loadStreamConfig("youtube").config, "STREAM_KEY"),
                              StreamUrlOf(loadStreamConfig("youtube"))) ]
  /\ proc = [ u \in Sessions |-> << >> ]
  /\ streams = EmptyMap
  /\ sent = [ s \in Sessions |-> << >> ]
  /\ exited = FALSE
  /\ ffmpegFound \in BOOLEAN
  /\ lastOp = Op("new", Null, NoArg)
  /\ NoClient

SupBecomes(st) ==
  /\ so' = st.so
  /\ proc' = st.proc
  /\ Spawned(st.proc) <= MaxProcs
  /\ ChunksWritten(st.proc) <= MaxChunks
  /\ UNCHANGED << ws, streamOutput, platform, streams, sent, exited, ffmpegFound >>

CallStart(u) ==
  /\ ~exited
  /\ SupBecomes(Start([ so |-> so, proc |-> proc ], u, ffmpegFound))
  /\ lastOp' = Op("start", u, NoArg)
  /\ UNCHANGED clientVars

CallWrite(u) ==
  \E chunk \in Chunks :
    /\ ~exited
    /\ SupBecomes(Write([ so |-> so, proc |-> proc ], u, chunk))
    /\ lastOp' = Op("write", u, chunk)
    /\ UNCHANGED clientVars

CallStop(u) ==
  /\ ~exited
  /\ SupBecomes(Stop([ so |-> so, proc |-> proc ], u))
  /\ lastOp' = Op("stop", u, NoArg)
  /\ UNCHANGED clientVars

SupNext ==
  \/ \E u \in SupObjects : CallStart(u)
  \/ \E u \in SupObjects : CallWrite(u)
  \/ \E u \in SupObjects : CallStop(u)
  \/ \E u \in Sessions : \E i \in 1..Len(proc[u]) : ChildExit(u, i)
  \/ \E u \in Sessions : \E i \in 1..Len(proc[u]) : ChildClose(u, i)
  \/ \E u \in Sessions : \E i \in 1..Len(proc[u]) : ChildError(u, i)

SupSpec == SupInit /\ [][SupNext]_vars

\* The event loop delivers a pending 'close' or 'error' event of a child.
\* Nothing makes a running ffmpeg process end: SIGTERM can be handled or
\* held up by the process, and stop() arms no timer.
DeliverChildEvent ==
  \E u \in Sessions : \E i \in 1..MaxProcs :
    /\ i <= Len(proc[u])
    /\ (ChildClose(u, i) \/ ChildError(u, i))

LiveSupSpec ==
  SupInit /\ [][SupNext]_vars /\ WF_<< so, proc >>(DeliverChildEvent)

\* ------------------------- StreamOutput while a child dies unnoticed
\* The ffmpeg process is gone and the runtime has not yet handled its exit.
ChildDies(u, i) ==
  /\ ~exited
  /\ proc[u][i].state = "running"
  /\ proc' = [ proc EXCEPT ![u][i].state = "dead" ]
  /\ lastOp' = ChildOp("died", u, i)
  /\ UNCHANGED clientVars
  /\ UNCHANGED << ws, streamOutput, platform, so, streams, sent, exited, ffmpegFound >>

\* The stdin stream of a child emits 'error' (EPIPE).  No listener is
\* registered on stdin, so the error is an uncaught exception and the
\* server process ends.
StdinError(u, i) ==
  /\ ~exited
  /\ proc[u][i].epipe
  /\ proc[u][i].state = "dead"
  /\ exited' = TRUE
  /\ lastOp' = ChildOp("stdin-error", u, i)
  /\ UNCHANGED clientVars
  /\ UNCHANGED << ws, streamOutput, platform, so, proc, streams, sent, ffmpegFound >>

RaceInit == SupInit /\ ffmpegFound

RaceNext ==
  \/ \E u \in SupObjects : CallStart(u)
  \/ \E u \in SupObjects : CallWrite(u)
  \/ \E u \in SupObjects : CallStop(u)
  \/ \E u \in Sessions : \E i \in 1..Len(proc[u]) : ChildDies(u, i)
  \/ \E u \in Sessions : \E i \in 1..Len(proc[u]) : StdinError(u, i)
  \/ \E u \in Sessions : \E i \in 1..Len(proc[u]) : ChildExit(u, i)
  \/ \E u \in Sessions : \E i \in 1..Len(proc[u]) : ChildClose(u, i)

RaceSpec == RaceInit /\ [][RaceNext]_vars

\* ------------------------------------------------- the browser's client
\* The platforms the page passes to start(): one resolves on the server,
\* one does not.
ClientPlatforms == {"youtube", "ghost"}

\* The platforms of the page for which the server finds a stream key.
Resolvable == { p \in ClientPlatforms : ~NoStreamKey(loadStreamConfig(p)) }

\* new WebSocket(serverUrl), created by call c of start(platform).
\* state is the readyState ("connecting", "open", "closing", "closed");
\* out: config frames on their way to the server; inbox: replies on their
\* way to the page; configured: the server's connection has a StreamOutput;
\* failed: the connection was failed and owes an 'error' event; errored:
\* that event has been delivered; resolvable: what the platform files give
\* the server end of this connection (they do not change during a run).
NewWebSocket(c, p) ==
  [ state |-> "connecting", call |-> c, platform |-> p, out |-> << >>,
    inbox |-> << >>, configured |-> FALSE, failed |-> FALSE, errored |-> FALSE,
    resolvable |-> Resolvable ]

\* The operators below take and return a record cl with the fields client,
\* socks and calls.

\* WebSocket.close(): a socket that is still connecting is failed.
close(cl, k) ==
  IF cl.socks[k].state = "connecting"
  THEN [ cl EXCEPT !.socks[k].state = "closing", !.socks[k].failed = TRUE ]
  ELSE IF cl.socks[k].state = "open"
       THEN [ cl EXCEPT !.socks[k].state = "closing" ]
       ELSE cl

\* StreamClient.stop()
stop(cl) ==
  LET a == IF cl.client.recorder = "recording"
           THEN [ cl EXCEPT !.client.recorder = "inactive" ]
           ELSE cl
      b == IF a.client.ws # Null
           THEN [ close(a, a.client.ws) EXCEPT !.client.ws = Null ]
           ELSE a
  IN  [ b EXCEPT !.client.isStreaming = FALSE ]

\* reject(err) of the promise of call c, and the catch block of start().
reject(cl, c) ==
  IF cl.calls[c].state # "pending"
  THEN cl
  ELSE [ stop(cl) EXCEPT !.calls[c].state = "rejected" ]

\* resolve() of the promise of call c, and the rest of start(): media
\* capture, _startRecording() (which throws without a codec), isStreaming.
resolve(cl, c) ==
  IF cl.calls[c].state # "pending"
  THEN cl
  ELSE IF cl.client.codec
       THEN [ cl EXCEPT !.client.recorder = "recording",
                        !.client.isStreaming = TRUE,
                        !.calls[c].state = "streaming" ]
       ELSE [ stop(cl) EXCEPT !.calls[c].state = "rejected" ]

\* StreamClient.start(platform) up to its first await.
start(cl, p) ==
  IF cl.client.isStreaming
  THEN [ cl EXCEPT !.calls = Append(@, [ state |-> "returned", timer |-> FALSE ]) ]
  ELSE [ cl EXCEPT !.calls = Append(@, [ state |-> "pending", timer |-> TRUE ]),
                   !.socks = Append(@, NewWebSocket(Len(cl.calls) + 1, p)),
                   !.client.ws = Len(cl.socks) + 1 ]

\* onopen of socket k: this.ws.send(JSON.stringify({ platform })).  this.ws
\* is read when the handler runs: send throws when it is null or still
\* connecting, and is dropped by a socket that is closing or closed.
onopen(cl, k) ==
  LET j == cl.client.ws
  IN  IF j # Null /\ cl.socks[j].state = "open"
      THEN [ cl EXCEPT !.socks[j].out = Append(@, cl.socks[k].platform) ]
      ELSE cl

\* onmessage of socket k
onmessage(cl, k, msg) ==
  IF msg = "streaming" THEN resolve(cl, cl.socks[k].call)
  ELSE IF msg = "error" THEN reject(cl, cl.socks[k].call)
  ELSE cl

\* onclose of socket k
onclose(cl, k) ==
  IF cl.client.isStreaming THEN [ cl EXCEPT !.client.isStreaming = FALSE ] ELSE cl

\* The setTimeout callback of call c: this.ws.readyState throws when
\* this.ws is null.
ontimeout(cl, c) ==
  LET j == cl.client.ws
  IN  IF j = Null THEN cl
      ELSE IF cl.socks[j].state # "open" THEN reject(cl, c)
      ELSE cl

\* The server's message handler seen from the page: the first text frame
\* of a connection is answered by the acknowledgement or by an error
\* frame; text frames after the acknowledgement are ignored.
serverReply(sock, p) ==
  IF sock.configured THEN << >>
  ELSE IF p \in sock.resolvable THEN << "streaming" >> ELSE << "error" >>

\* The server takes the oldest frame sent on socket k and replies.
received(cl, k) ==
  LET r == serverReply(cl.socks[k], Head(cl.socks[k].out))
  IN  [ cl EXCEPT !.socks[k].out = Tail(@),
                  !.socks[k].inbox = @ \o r,
                  !.socks[k].configured = @ \/ r = << "streaming" >> ]

Page == [ client |-> client, socks |-> socks, calls |-> calls ]

PageBecomes(cl) ==
  /\ client' = cl.client
  /\ socks' = cl.socks
  /\ calls' = cl.calls
  /\ UNCHANGED << ws, streamOutput, platform, so, proc, streams, sent, exited,
                  ffmpegFound >>

ClientInit ==
  /\ ws = [ s \in Sessions |-> "idle" ]
  /\ streamOutput = [ s \in Sessions |-> Null ]
  /\ platform = [ s \in Sessions |-> "youtube" ]
  /\ so = [ u \in Sessions |-> NoObject ]
  /\ proc = [ u \in Sessions |-> << >> ]
  /\ streams = EmptyMap
  /\ sent = [ s \in Sessions |-> << >> ]
  /\ exited = FALSE
  /\ ffmpegFound = TRUE
  /\ lastOp = Op("page", Null, NoArg)
  /\ \E codec \in BOOLEAN : client = NewStreamClient(codec)
  /\ socks = << >>
  /\ calls = << >>

\* client.start(platform), from the button or from a script.
ClientStart ==
  \E p \in ClientPlatforms :
    /\ Len(calls) < MaxStarts
    /\ PageBecomes(start(Page, p))
    /\ lastOp' = Op("client-start", Len(calls) + 1, NoArg)

\* client.stop()
ClientStop ==
  /\ PageBecomes(stop(Page))
  /\ lastOp' = Op("client-stop", Null, NoArg)

\* The connection of socket k is established: 'open'.
SockOpen(k) ==
  /\ socks[k].state = "connecting"
  /\ PageBecomes(onopen([ Page EXCEPT !.socks[k].state = "open" ], k))
  /\ lastOp' = Op("onopen", k, NoArg)

\* The connection of socket k cannot be established.
NetFail(k) ==
  /\ socks[k].state = "connecting"
  /\ PageBecomes([ Page EXCEPT !.socks[k].state = "closing",
                               !.socks[k].failed = TRUE ])
  /\ lastOp' = Op("netfail", k, NoArg)

\* The server end or the network closes the open connection of socket k.
ServerClose(k) ==
  /\ socks[k].state = "open"
  /\ PageBecomes([ Page EXCEPT !.socks[k].state = "closing" ])
  /\ lastOp' = Op("server-close", k, NoArg)

\* 'error' of a failed socket k: onerror rejects.
SockError(k) ==
  /\ socks[k].failed /\ ~socks[k].errored
  /\ PageBecomes(reject([ Page EXCEPT !.socks[k].errored = TRUE ], socks[k].call))
  /\ lastOp' = Op("onerror", k, NoArg)

\* 'close' of socket k, after its 'error' if it was failed.
SockClose(k) ==
  /\ socks[k].state = "closing"
  /\ socks[k].failed => socks[k].errored
  /\ PageBecomes(onclose([ Page EXCEPT !.socks[k].state = "closed",
                                       !.socks[k].out = << >>,
                                       !.socks[k].inbox = << >> ], k))
  /\ lastOp' = Op("onclose", k, NoArg)

\* The server handles the next frame the page sent on socket k.
ServerMessage(k) ==
  /\ socks[k].out # << >>
  /\ PageBecomes(received(Page, k))
  /\ lastOp' = Op("server-message", k, NoArg)

\* 'message' of socket k: delivered only while the socket is open.
ClientMessage(k) ==
  /\ socks[k].inbox # << >>
  /\ socks[k].state = "open"
  /\ PageBecomes(onmessage([ Page EXCEPT !.socks[k].inbox = Tail(@) ], k,
                           Head(socks[k].inbox)))
  /\ lastOp' = Op("onmessage", k, NoArg)

\* The 10 s timer of call c fires.
Timer(c) ==
  /\ calls[c].timer
  /\ PageBecomes(ontimeout([ Page EXCEPT !.calls[c].timer = FALSE ], c))
  /\ lastOp' = Op("timeout", c, NoArg)

ClientNext ==
  \/ ClientStart
  \/ ClientStop
  \/ \E k \in 1..Len(socks) : SockOpen(k)
  \/ \E k \in 1..Len(socks) : NetFail(k)
  \/ \E k \in 1..Len(socks) : ServerClose(k)
  \/ \E k \in 1..Len(socks) : SockError(k)
  \/ \E k \in 1..Len(socks) : SockClose(k)
  \/ \E k \in 1..Len(socks) : ServerMessage(k)
  \/ \E k \in 1..Len(socks) : ClientMessage(k)
  \/ \E c \in 1..Len(calls) : Timer(c)

ClientSpec == ClientInit /\ [][ClientNext]_vars

\* What the browser, the network and the server owe the page: a connection
\* attempt ends (established or failed), pending events and timers are
\* delivered, and the server handles the frames it received.  Nothing
\* obliges the page to call start() or stop(), or the server to close.
PageFairness ==
  \A k \in 1..MaxStarts :
    /\ WF_vars(k <= Len(socks) /\ (SockOpen(k) \/ NetFail(k)))
    /\ WF_vars(k <= Len(socks) /\ SockError(k))
    /\ WF_vars(k <= Len(socks) /\ SockClose(k))
    /\ WF_vars(k <= Len(socks) /\ ServerMessage(k))
    /\ WF_vars(k <= Len(socks) /\ ClientMessage(k))
    /\ WF_vars(k <= Len(calls) /\ Timer(k))

LiveClientSpec == ClientInit /\ [][ClientNext]_vars /\ PageFairness

\* ================================================================ claims
IsMessage(op, s) == op.op = "message" /\ op.id = s
IsText(op, s) == IsMessage(op, s) /\ ~op.arg.isBinary
IsBinary(op, s) == IsMessage(op, s) /\ op.arg.isBinary
IsClose(op, s) == op.op = "close" /\ op.id = s

\* The children of object u whose process is alive.
LiveChildren(u) == { i \in 1..Len(proc[u]) : proc[u][i].state = "running" }

\* The platforms whose credentials do not resolve: "ghost" has no file and
\* the file of "nokey" sets no non-empty STREAM_KEY.
Unresolvable == {"nokey", "ghost"}

\* C1: start() on a StreamOutput that is already running (ffmpeg set) is a
\* no-op: it spawns no child and leaves the child reference, every other
\* field and every child as they were, however often it is repeated.
C1_StartIdempotent ==
  [][ \A u \in SupObjects :
        (lastOp'.op = "start" /\ lastOp'.id = u /\ so[u].ffmpeg # Null)
        => (so' = so /\ proc' = proc) ]_vars

\* C1 witness: start() has just returned on an object whose only child
\* already holds written chunks, so it was running when start() was called.
C1_Witness ==
  \E u \in SupObjects :
    /\ lastOp.op = "start" /\ lastOp.id = u
    /\ Len(proc[u]) = 1
    /\ so[u].ffmpeg = 1
    /\ proc[u][1].stdin # << >>

\* C2: at any time at most one child spawned by a StreamOutput is alive,
\* for every interleaving of start(), write(), stop() and child events.
C2_OneLiveChild ==
  \A u \in Sessions : Cardinality(LiveChildren(u)) <= 1

\* C3: at any time at most one encoder child is alive per platform, across
\* all connections.
C3_OneChildPerPlatform ==
  \A p \in Platforms :
    Cardinality({ k \in Children(proc) :
                    /\ proc[k[1]][k[2]].state = "running"
                    /\ so[k[1]].platform = p }) <= 1

\* C4: a connection gets its StreamOutput once and keeps it, gets it only
\* in handling a text frame whose platform resolves, and once it has one
\* every further text frame changes nothing: no child, no new object, no
\* registry change, no reply.
C4_ConfigOnce ==
  [][ \A s \in Sessions :
        /\ streamOutput[s] # Null => streamOutput'[s] = streamOutput[s]
        /\ (streamOutput[s] = Null /\ streamOutput'[s] # Null)
           => /\ IsText(lastOp', s)
              /\ ~ParseConfig(lastOp'.arg.data).threw
              /\ ParseConfig(lastOp'.arg.data).platform \notin Unresolvable
        /\ (IsText(lastOp', s) /\ streamOutput[s] # Null)
           => UNCHANGED << ws, streamOutput, platform, so, proc, streams, sent >> ]_vars

\* C4 witness: a text frame has just been handled on a connection that was
\* already streaming (its child holds a chunk) and still has one reply.
C4_Witness ==
  \E s \in Sessions :
    /\ IsText(lastOp, s)
    /\ streamOutput[s] # Null
    /\ Len(proc[s]) = 1 /\ proc[s][1].stdin # << >>
    /\ sent[s] = << StatusReply("youtube") >>

C6_BinaryBeforeConfig ==
  [][ \A s \in Sessions :
        (IsBinary(lastOp', s) /\ streamOutput[s] = Null)
        => UNCHANGED << ws, streamOutput, platform, so, proc, streams, sent >> ]_vars

\* C6 witness: a binary frame has just been handled on a connection whose
\* configuration failed before (one error reply) and that has no object.
C6_Witness ==
  \E s \in Sessions :
    /\ IsBinary(lastOp, s)
    /\ streamOutput[s] = Null
    /\ sent[s] = << ErrorReply("nokey") >>

\* C7: a configuration frame for a platform without resolvable credentials
\* is answered by one error frame, spawns nothing, registers nothing and
\* leaves the connection open without a StreamOutput; a configuration
\* frame for a resolvable platform on a connection without a StreamOutput
\* (also after such an error) creates and starts one, registers it and is
\* answered by the streaming status.
C7_UnknownPlatform ==
  [][ \A s \in Sessions :
        (IsText(lastOp', s) /\ streamOutput[s] = Null
           /\ ~ParseConfig(lastOp'.arg.data).threw)
        => LET p == ParseConfig(lastOp'.arg.data).platform
           IN  IF p \in Unresolvable
               THEN /\ sent'[s] = Append(sent[s], ErrorReply(p))
                    /\ UNCHANGED << ws, streamOutput, so, proc, streams >>
               ELSE /\ streamOutput'[s] # Null
                    /\ Len(proc'[s]) = Len(proc[s]) + 1
                    /\ so'[streamOutput'[s]].ffmpeg = Len(proc'[s])
                    /\ p \in DOMAIN streams' /\ streams'[p] = streamOutput'[s]
                    /\ sent'[s] = Append(sent[s], StatusReply(p)) ]_vars

\* C7 witness: a connection was refused for a platform without a file and
\* then acknowledged for youtube.
C7_Witness ==
  \E s \in Sessions :
    /\ sent[s] = << ErrorReply("ghost"), StatusReply("youtube") >>
    /\ streamOutput[s] # Null
    /\ ws[s] = "open"

\* C8: when a connection that has a StreamOutput closes, the registry has
\* no entry for its platform afterwards and the StreamOutput is stopped
\* (no child reference, not streaming, its child's stdin ended and SIGTERM
\* sent); a closed connection is never torn down again.
C8_TeardownOnClose ==
  [][ \A s \in Sessions :
        /\ (IsClose(lastOp', s) /\ streamOutput[s] # Null)
           => /\ platform[s] \notin DOMAIN streams'
              /\ so'[s].ffmpeg = Null /\ ~so'[s].isStreaming
              /\ so[s].ffmpeg # Null
                 => /\ proc'[s][so[s].ffmpeg].ended
                    /\ proc'[s][so[s].ffmpeg].sigterm
        /\ ws[s] = "closed" => (ws'[s] = "closed" /\ ~IsClose(lastOp', s)) ]_vars

\* C8 witness: a connection has just closed while its child was running.
C8_Witness ==
  \E s \in Sessions :
    /\ IsClose(lastOp, s)
    /\ streamOutput[s] # Null
    /\ proc[s][1].state = "running" /\ proc[s][1].sigterm

\* C9: the registry has an entry for platform p exactly when a connection
\* that began streaming for p is still open.
C9_RegistryExact ==
  \A p \in Platforms :
    (p \in DOMAIN streams)
    <=> (\E s \in Sessions :
           streamOutput[s] # Null /\ ws[s] = "open" /\ platform[s] = p)

\* C10: once the SIGINT handler has run, no StreamOutput still holds a
\* child and every child still alive has been sent SIGTERM.
C10_AllStoppedAtExit ==
  exited =>
    /\ \A u \in Sessions : so[u].ffmpeg = Null
    /\ \A k \in Children(proc) :
         proc[k[1]][k[2]].state = "running" => proc[k[1]][k[2]].sigterm

IsChildEvent(op, u, i) ==
  op.op \in {"close-event", "error-event"} /\ op.id = u /\ op.child = i

\* C11: when ffmpeg cannot be spawned, a configuration frame for a
\* resolvable platform leaves the StreamOutput without child reference and
\* not streaming, is answered by an error frame, registers nothing and
\* leaves the connection without a StreamOutput.
C11_SpawnFailureIsConfigFailure ==
  [][ \A s \in Sessions :
        (IsText(lastOp', s) /\ streamOutput[s] = Null /\ ~ffmpegFound
           /\ ~ParseConfig(lastOp'.arg.data).threw
           /\ ParseConfig(lastOp'.arg.data).platform \notin Unresolvable)
        => /\ so'[s].ffmpeg = Null /\ ~so'[s].isStreaming
           /\ streamOutput'[s] = Null
           /\ streams' = streams
           /\ sent'[s] = Append(sent[s],
                                ErrorReply(ParseConfig(lastOp'.arg.data).platform)) ]_vars

C13_HealthCountsRunning ==
  /\ Health(World).activeStreams
       = Cardinality({ u \in Sessions : so[u].isStreaming })
  /\ Health(World).streams = DOMAIN streams

\* C15: stop() on a StreamOutput without child reference (never started
\* or already stopped) changes no field and no child: no end of input, no
\* signal; repeating it changes nothing either.
C15_StopIdempotent ==
  [][ \A u \in SupObjects :
        (lastOp'.op = "stop" /\ lastOp'.id = u /\ so[u].ffmpeg = Null)
        => (so' = so /\ proc' = proc) ]_vars

\* C15 witness: stop() has just returned on an object that had lost its
\* child on its own (the child was never signalled) and holds no child.
C15_Witness ==
  \E u \in SupObjects :
    /\ lastOp.op = "stop" /\ lastOp.id = u
    /\ so[u].ffmpeg = Null
    /\ Len(proc[u]) = 1
    /\ proc[u][1].state = "closed" /\ ~proc[u][1].sigterm

\* C16: a text frame that does not parse, on a connection without
\* StreamOutput, changes nothing (connection open, no object, no child, no
\* registry entry, no reply); a frame for a resolvable platform on such a
\* connection is accepted whatever came before.
C16_MalformedDiscarded ==
  [][ \A s \in Sessions :
        /\ (IsText(lastOp', s) /\ streamOutput[s] = Null
              /\ lastOp'.arg.data.json = "bad")
           => UNCHANGED << ws, streamOutput, platform, so, proc, streams, sent >>
        /\ (IsText(lastOp', s) /\ streamOutput[s] = Null
              /\ lastOp'.arg.data.json = "obj"
              /\ lastOp'.arg.data.platform = Undefined)
           => /\ streamOutput'[s] # Null
              /\ "youtube" \in DOMAIN streams' ]_vars

\* C16 witness: an unparseable text frame has just been handled on an open
\* connection that still has no StreamOutput and has sent nothing.
C16_Witness ==
  \E s \in Sessions :
    /\ IsText(lastOp, s) /\ lastOp.arg.data.json = "bad"
    /\ streamOutput[s] = Null
    /\ ws[s] = "open"
    /\ sent[s] = << >>

\* C17: the listeners of a child clear the StreamOutput's child reference
\* only when it refers to that child: after stop() has cleared it, or when
\* it refers to a later child, the child's events change no field.
C17_ClearOnlyOwnChild ==
  [][ \A u \in Sessions : \A i \in 1..Len(proc[u]) :
        (IsChildEvent(lastOp', u, i) /\ so[u].ffmpeg # i) => so'[u] = so[u] ]_vars

\* C14: write() on a StreamOutput that holds no child (never started,
\* stopped) or whose child has ended on its own changes no
\* field of the object, delivers the chunk to no process and raises no
\* error, at once or pending on the child's stdin.
C14_WriteAfterEndIsNoOp ==
  [][ \A u \in SupObjects :
        (lastOp'.op = "write" /\ lastOp'.id = u
           /\ (so[u].ffmpeg = Null
                 \/ proc[u][so[u].ffmpeg].state \in {"dead", "exited"}))
        => (so' = so /\ proc' = proc) ]_vars

\* C18: every child that stop() has signalled is eventually no longer
\* running, whether or not the process reacts to the end of its input and
\* to SIGTERM.
C18_StoppedChildTerminates ==
  \A u \in SupObjects : \A i \in 1..MaxProcs :
    (i <= Len(proc[u]) /\ proc[u][i].sigterm)
      ~> (i <= Len(proc[u]) /\ proc[u][i].state # "running")

\* The sockets of the StreamClient that hold or are setting up a
\* connection to the server.
OpenSockets == { k \in 1..Len(socks) : socks[k].state \in {"connecting", "open"} }

\* C19: in every state the StreamClient has at most one socket that is
\* connecting or open, whatever start() and stop() calls were made.
C19_OneConnection == Cardinality(OpenSockets) <= 1

\* C20: every call of start() that is pending eventually settles: it
\* returns, resolves streaming or rejects.
C20_StartSettles ==
  \A c \in 1..MaxStarts :
    (c <= Len(calls) /\ calls[c].state = "pending")
      ~> (c <= Len(calls) /\ calls[c].state # "pending")

====
